---- MODULE Spec2Model ----
(***************************************************************************)
(* A model of the two trie implementations of package trie: pathTrie       *)
(* (src/path_trie.go, whole-segment labels) and runeTrie                   *)
(* (src/rune_trie.go, one label per code point).                           *)
(*                                                                         *)
(* Strings are sequences of bytes, as in Go.  A trie is the tree of nodes  *)
(* owned by its root; since no node has two parents, a node is identified  *)
(* by the sequence of labels leading to it (the root is <<>>), and a trie  *)
(* is the function from the nodes that exist to their value field.  The    *)
(* children map of node n is the set of labels l with Append(n, l) a node. *)
(*                                                                         *)
(* Get, Put, Delete and WalkPath are issued, with the same arguments, to   *)
(* one pathTrie and one runeTrie; the two share nothing.                   *)
(***************************************************************************)
EXTENDS Integers, Sequences, FiniteSets, TLC

VARIABLES pathTrie, runeTrie, prePath, preRune, everPut, last

vars == <<pathTrie, runeTrie, prePath, preRune, everPut, last>>

---------------------------------------------------------------------------
(* Bounds *)

\* Keys are at most this many bytes long.
MaxKeyBytes == 3

\* At most this many distinct keys are passed to Put during a run.
MaxPutKeys == 2

---------------------------------------------------------------------------
(* Strings, UTF-8 *)

\* '/', the separator of the default segmenter.
Slash == 47

\* The characters keys are made of, as their UTF-8 encodings: "/" (one byte)
\* and "é" (U+00E9, two bytes).
Chars == {<<47>>, <<195, 169>>}

RECURSIVE KeysUpTo(_)
KeysUpTo(n) ==
  {<<>>} \cup UNION {{c \o k : k \in KeysUpTo(n - Len(c))} : c \in {d \in Chars : Len(d) <= n}}

\* The keys the calls are made with: the strings of Chars of at most
\* MaxKeyBytes bytes, the empty string included.
Keys == KeysUpTo(MaxKeyBytes)

\* The values stored (type parameter T); 0 is T's zero value.
Values == {0, 1}

\* A *T is a sequence: the nil pointer is empty, a pointer to v holds v.
Nil == <<>>

\* &value
Ptr(v) == <<v>>

\* *p
Deref(p) == p[1]

\* A nil error.
NoErr == "nil"

zeroValueOfT == 0

\* utf8.RuneError, what range yields for a byte that starts no valid encoding.
RuneError == 65533

\* One step of `for i, r := range key` at byte offset i (0-based): the rune
\* decoded there and the number of bytes it takes.
DecodeRune(key, i) ==
  LET b0 == key[i + 1] IN
  IF b0 < 128 THEN [r |-> b0, size |-> 1]
  ELSE IF b0 >= 192 /\ b0 < 224 /\ i + 2 <= Len(key)
          /\ key[i + 2] >= 128 /\ key[i + 2] < 192
          /\ (b0 - 192) * 64 + (key[i + 2] - 128) >= 128
       THEN [r |-> (b0 - 192) * 64 + (key[i + 2] - 128), size |-> 2]
       ELSE [r |-> RuneError, size |-> 1]

\* string(r): the UTF-8 encoding of rune r.
EncodeRune(r) ==
  IF r < 128 THEN <<r>>
  ELSE IF r < 2048 THEN <<192 + (r \div 64), 128 + (r % 64)>>
  ELSE <<224 + (r \div 4096), 128 + ((r \div 64) % 64), 128 + (r % 64)>>

\* strings.IndexByte: the 0-based offset of the first byte c of s, or -1.
IndexByte(s, c) ==
  IF \E j \in 1..Len(s) : s[j] = c
  THEN (CHOOSE j \in 1..Len(s) : s[j] = c /\ \A h \in 1..(j - 1) : s[h] # c) - 1
  ELSE -1

\* key[lo:hi] of Go (0-based, hi excluded).
Slice(key, lo, hi) == SubSeq(key, lo + 1, hi)

\* The default StringSegmenter: the segment of path that starts at byte
\* offset start and ends before the next '/', and the offset of the segment
\* after it, -1 when there is none.  "/a/b/c" -> "/a", "/b", "/c".
PathSegmenter(path, start) ==
  IF Len(path) = 0 \/ start < 0 \/ start > Len(path) - 1
  THEN [part |-> <<>>, i |-> -1]
  ELSE LET end == IndexByte(Slice(path, start + 1, Len(path)), Slash) IN
       IF end = -1
       THEN [part |-> Slice(path, start, Len(path)), i |-> -1]
       ELSE [part |-> Slice(path, start, start + end + 1), i |-> start + end + 1]

---------------------------------------------------------------------------
(* Nodes *)

\* The root node of a trie.
Root == <<>>

\* A trie as NewPathTrie and NewRuneTrie return it: a root with a nil value
\* and no children.
NewTrie == (Root :> Nil)

IsPrefix(n, q) == Len(n) <= Len(q) /\ SubSeq(q, 1, Len(n)) = n

\* The keys of node n's children map.
Children(t, n) ==
  {q[Len(q)] : q \in {p \in DOMAIN t : Len(p) = Len(n) + 1 /\ IsPrefix(n, p)}}

\* len(trie.children) == 0
isLeaf(t, n) == Children(t, n) = {}

\* delete(parent.children, label): the child, and with it all it owns, is no
\* longer part of the trie.
DeleteChild(t, parent, label) ==
  [q \in {p \in DOMAIN t : ~IsPrefix(Append(parent, label), p)} |-> t[q]]

\* parent.children = nil: all that parent owned is no longer part of the trie.
ClearChildren(t, parent) ==
  [q \in {p \in DOMAIN t : p = parent \/ ~IsPrefix(parent, p)} |-> t[q]]

\* MapIndex that makes the entry it does not find, as a get-or-create would.
MapIndex_Inserts(t, node, label) ==
  [trie |-> IF Append(node, label) \in DOMAIN t THEN t
            ELSE (Append(node, label) :> Nil) @@ t,
   found |-> Append(node, label) \in DOMAIN t]

\* node.children[label] read as in `node = node.children[label]`: whether
\* the child is there, and the trie after the read.  Indexing a Go map, nil
\* or not, adds no entry to it.
MapIndex(t, node, label) ==
  [trie |-> t, found |-> Append(node, label) \in DOMAIN t]

\* AddChild that makes a new children map for the parent each time, the
\* parent's other children lost.
AddChild_FreshMap(t, parent, label) ==
  (Append(parent, label) :> Nil) @@ ClearChildren(t, parent)

\* node.children[label] = new node (value nil, no children)
AddChild(t, parent, label) == (Append(parent, label) :> Nil) @@ t

\* What an operation hands back: Get's (value, found), Put's isNew, Delete's
\* existed, and for the walks the calls the walker received and the error.
Result(ok, val, visits, err) ==
  [ok |-> ok, val |-> val, visits |-> visits, err |-> err]

\* The error a walker returns to stop a walk.
ErrStop == "stop"

\* A WalkFunc: it records each call it receives in log and returns ErrStop
\* on its stopAt-th call, nil on every other (stopAt = 0: it never stops).
walker(stopAt, log, key, value) ==
  [log |-> Append(log, [key |-> key, value |-> value]),
   err |-> IF Len(log) + 1 = stopAt THEN ErrStop ELSE NoErr]

---------------------------------------------------------------------------
(* pathTrie *)

\* The labels the segmenter cuts key into, as the loops
\* `for part, i := trie.segmenter(key, 0); part != ""; ...` take them.
RECURSIVE pathTrie_LabelsFrom(_, _)
pathTrie_LabelsFrom(key, seg) ==
  IF seg.part = <<>> THEN <<>>
  ELSE <<seg.part>> \o pathTrie_LabelsFrom(key, PathSegmenter(key, seg.i))

\* The node key leads to: the labels of key, from the root.
pathTrie_Node(key) == pathTrie_LabelsFrom(key, PathSegmenter(key, 0))

RECURSIVE pathTrie_GetLoop(_, _, _, _)
pathTrie_GetLoop(t, key, node, seg) ==
  IF seg.part = <<>>
  THEN IF t[node] = Nil
       THEN [val |-> zeroValueOfT, ok |-> FALSE, trie |-> t]
       ELSE [val |-> Deref(t[node]), ok |-> TRUE, trie |-> t]
  ELSE LET child == MapIndex(t, node, seg.part) IN
       IF ~child.found
       THEN [val |-> zeroValueOfT, ok |-> FALSE, trie |-> child.trie]
       ELSE pathTrie_GetLoop(child.trie, key, Append(node, seg.part),
                             PathSegmenter(key, seg.i))

\* A call of Get: what it returns and the trie after it.
pathTrie_GetCall(t, key) == pathTrie_GetLoop(t, key, Root, PathSegmenter(key, 0))

\* What Get returns.
pathTrie_Get(t, key) ==
  LET c == pathTrie_GetCall(t, key) IN [val |-> c.val, ok |-> c.ok]

\* pathTrie_PutValue with `if node.value == nil` around the assignment.
pathTrie_PutValue_KeepsOld(t, node, value) ==
  [trie |-> IF t[node] = Nil THEN [t EXCEPT ![node] = Ptr(value)] ELSE t,
   isNew |-> t[node] = Nil]

\* The end of Put, at the node the key leads to.
pathTrie_PutValue(t, node, value) ==
  [trie |-> [t EXCEPT ![node] = Ptr(value)], isNew |-> t[node] = Nil]

RECURSIVE pathTrie_PutLoop(_, _, _, _, _)
pathTrie_PutLoop(t, key, node, seg, value) ==
  IF seg.part = <<>>
  THEN pathTrie_PutValue(t, node, value)
  ELSE LET child == Append(node, seg.part)
           t1 == IF child \notin DOMAIN t THEN AddChild(t, node, seg.part) ELSE t
       IN pathTrie_PutLoop(t1, key, child, PathSegmenter(key, seg.i), value)

pathTrie_Put(t, key, value) ==
  pathTrie_PutLoop(t, key, Root, PathSegmenter(key, 0), value)

\* The descending walk of Delete: the ancestors recorded and the node reached.
RECURSIVE pathTrie_DeleteWalk(_, _, _, _, _)
pathTrie_DeleteWalk(t, key, node, seg, path) ==
  IF seg.part = <<>>
  THEN [found |-> TRUE, node |-> node, path |-> path, trie |-> t]
  ELSE LET child == MapIndex(t, node, seg.part)
           path1 == Append(path, [part |-> seg.part, node |-> node])
       IN IF ~child.found
          THEN [found |-> FALSE, node |-> node, path |-> path1, trie |-> child.trie]
          ELSE pathTrie_DeleteWalk(child.trie, key, Append(node, seg.part),
                                   PathSegmenter(key, seg.i), path1)

\* pathTrie_DeletePrune without `if parent.value != nil { break }`.
RECURSIVE pathTrie_DeletePrune_NoValueCheck(_, _, _)
pathTrie_DeletePrune_NoValueCheck(t, path, i) ==
  IF i < 1 THEN t
  ELSE LET parent == path[i].node
           part == path[i].part
           t1 == DeleteChild(t, parent, part)
           t2 == ClearChildren(t1, parent)
       IN IF ~isLeaf(t1, parent) THEN t1
          ELSE pathTrie_DeletePrune_NoValueCheck(t2, path, i - 1)

\* pathTrie_DeletePrune that removes the deleted node from its parent and
\* goes no further up.
pathTrie_DeletePrune_OneLevel(t, path, i) ==
  IF i < 1 THEN t
  ELSE LET parent == path[i].node
           part == path[i].part
           t1 == DeleteChild(t, parent, part)
           t2 == ClearChildren(t1, parent)
       IN IF ~isLeaf(t1, parent) THEN t1 ELSE t2

\* The pruning loop of Delete, `for i := len(path) - 1; i >= 0; i--`; path is
\* indexed from 1 here, so i runs from Len(path) down to 1.
RECURSIVE pathTrie_DeletePrune(_, _, _)
pathTrie_DeletePrune(t, path, i) ==
  IF i < 1 THEN t
  ELSE LET parent == path[i].node
           part == path[i].part
           t1 == DeleteChild(t, parent, part)
           t2 == ClearChildren(t1, parent)
       IN IF ~isLeaf(t1, parent) THEN t1
          ELSE IF t2[parent] # Nil THEN t2
          ELSE pathTrie_DeletePrune(t2, path, i - 1)

\* pathTrie_Delete that, when a child is missing, clears the value of the
\* last node it reached before returning false.
pathTrie_Delete_ClearsOnMiss(t, key) ==
  LET w == pathTrie_DeleteWalk(t, key, Root, PathSegmenter(key, 0), <<>>) IN
  IF ~w.found THEN [trie |-> [w.trie EXCEPT ![w.node] = Nil], existed |-> FALSE]
  ELSE LET t1 == [w.trie EXCEPT ![w.node] = Nil] IN
       [trie |-> IF isLeaf(t1, w.node)
                 THEN pathTrie_DeletePrune(t1, w.path, Len(w.path))
                 ELSE t1,
        existed |-> TRUE]

\* pathTrie_Delete with `return node.value != nil` in place of `return true`.
pathTrie_Delete_ReportsValue(t, key) ==
  LET w == pathTrie_DeleteWalk(t, key, Root, PathSegmenter(key, 0), <<>>) IN
  IF ~w.found THEN [trie |-> w.trie, existed |-> FALSE]
  ELSE LET t1 == [w.trie EXCEPT ![w.node] = Nil] IN
       [trie |-> IF isLeaf(t1, w.node)
                 THEN pathTrie_DeletePrune(t1, w.path, Len(w.path))
                 ELSE t1,
        existed |-> w.trie[w.node] # Nil]

\* node.value = nil
pathTrie_DeleteValue(t, node) == [t EXCEPT ![node] = Nil]

pathTrie_Delete(t, key) ==
  LET w == pathTrie_DeleteWalk(t, key, Root, PathSegmenter(key, 0), <<>>) IN
  IF ~w.found THEN [trie |-> w.trie, existed |-> FALSE]
  ELSE LET t1 == pathTrie_DeleteValue(w.trie, w.node) IN
       [trie |-> IF isLeaf(t1, w.node)
                 THEN pathTrie_DeletePrune(t1, w.path, Len(w.path))
                 ELSE t1,
        existed |-> TRUE]

\* pathTrie_WalkPathLoop that hands the walker the label of the node in
\* place of the prefix of the key.
RECURSIVE pathTrie_WalkPathLoop_PassesPart(_, _, _, _, _, _)
pathTrie_WalkPathLoop_PassesPart(t, key, node, seg, stopAt, log) ==
  LET m == MapIndex(t, node, seg.part)
      child == Append(node, seg.part)
  IN
  IF ~m.found THEN [visits |-> log, err |-> NoErr, trie |-> m.trie]
  ELSE LET c == IF m.trie[child] # Nil
                THEN walker(stopAt, log, seg.part, Deref(m.trie[child]))
                ELSE [log |-> log, err |-> NoErr]
       IN IF c.err # NoErr THEN [visits |-> c.log, err |-> c.err, trie |-> m.trie]
          ELSE IF seg.i = -1 THEN [visits |-> c.log, err |-> NoErr, trie |-> m.trie]
          ELSE pathTrie_WalkPathLoop_PassesPart(m.trie, key, child,
                                                PathSegmenter(key, seg.i), stopAt, c.log)

\* The loop of WalkPath; log holds the walker's calls so far.
RECURSIVE pathTrie_WalkPathLoop(_, _, _, _, _, _)
pathTrie_WalkPathLoop(t, key, node, seg, stopAt, log) ==
  LET m == MapIndex(t, node, seg.part)
      child == Append(node, seg.part)
  IN
  IF ~m.found THEN [visits |-> log, err |-> NoErr, trie |-> m.trie]
  ELSE LET k == IF seg.i = -1 THEN key ELSE Slice(key, 0, seg.i)
           c == IF m.trie[child] # Nil
                THEN walker(stopAt, log, k, Deref(m.trie[child]))
                ELSE [log |-> log, err |-> NoErr]
       IN IF c.err # NoErr THEN [visits |-> c.log, err |-> c.err, trie |-> m.trie]
          ELSE IF seg.i = -1 THEN [visits |-> c.log, err |-> NoErr, trie |-> m.trie]
          ELSE pathTrie_WalkPathLoop(m.trie, key, child, PathSegmenter(key, seg.i),
                                     stopAt, c.log)

\* WalkPath: the walker's calls, the error returned, and the trie after it.
pathTrie_WalkPath(t, key, stopAt) ==
  LET c == IF t[Root] # Nil
           THEN walker(stopAt, <<>>, <<>>, Deref(t[Root]))
           ELSE [log |-> <<>>, err |-> NoErr]
  IN IF c.err # NoErr THEN [visits |-> c.log, err |-> c.err, trie |-> t]
     ELSE pathTrie_WalkPathLoop(t, key, Root, PathSegmenter(key, 0), stopAt, c.log)

\* walk on node, and the range over its children that are still to be
\* visited (rest).  A range over a map takes the keys in any order, so the
\* result is the set of the outcomes of all the orders.
RECURSIVE pathTrie_walk(_, _, _, _, _)
RECURSIVE pathTrie_walkRange(_, _, _, _, _, _)

\* pathTrie_walkRange without `return err` when the walk of a child fails.
RECURSIVE pathTrie_walkRange_IgnoresErr(_, _, _, _, _, _)
pathTrie_walkRange_IgnoresErr(t, node, key, rest, stopAt, log) ==
  IF rest = {} THEN {[visits |-> log, err |-> NoErr]}
  ELSE UNION {UNION {pathTrie_walkRange_IgnoresErr(t, node, key, rest \ {part},
                                                   stopAt, o.visits)
                     : o \in pathTrie_walk(t, Append(node, part), key \o part, stopAt, log)}
              : part \in rest}

pathTrie_walk(t, node, key, stopAt, log) ==
  LET c == IF t[node] # Nil
           THEN walker(stopAt, log, key, Deref(t[node]))
           ELSE [log |-> log, err |-> NoErr]
  IN IF c.err # NoErr THEN {[visits |-> c.log, err |-> c.err]}
     ELSE pathTrie_walkRange(t, node, key, Children(t, node), stopAt, c.log)

pathTrie_walkRange(t, node, key, rest, stopAt, log) ==
  IF rest = {} THEN {[visits |-> log, err |-> NoErr]}
  ELSE UNION {UNION {IF o.err # NoErr THEN {o}
                     ELSE pathTrie_walkRange(t, node, key, rest \ {part}, stopAt, o.visits)
                     : o \in pathTrie_walk(t, Append(node, part), key \o part, stopAt, log)}
              : part \in rest}

pathTrie_Walk(t, stopAt) == pathTrie_walk(t, Root, <<>>, stopAt, <<>>)

---------------------------------------------------------------------------
(* runeTrie *)

\* The runes of key from byte offset i on, as `for _, r := range key` takes
\* them.
RECURSIVE runeTrie_LabelsFrom(_, _)
runeTrie_LabelsFrom(key, i) ==
  IF i >= Len(key) THEN <<>>
  ELSE <<DecodeRune(key, i).r>> \o runeTrie_LabelsFrom(key, i + DecodeRune(key, i).size)

\* The node key leads to: the runes of key, from the root.
runeTrie_Node(key) == runeTrie_LabelsFrom(key, 0)

RECURSIVE runeTrie_GetLoop(_, _, _, _)
runeTrie_GetLoop(t, key, node, i) ==
  IF i >= Len(key)
  THEN IF t[node] = Nil
       THEN [val |-> zeroValueOfT, ok |-> FALSE, trie |-> t]
       ELSE [val |-> Deref(t[node]), ok |-> TRUE, trie |-> t]
  ELSE LET d == DecodeRune(key, i)
           child == MapIndex(t, node, d.r)
       IN IF ~child.found
          THEN [val |-> zeroValueOfT, ok |-> FALSE, trie |-> child.trie]
          ELSE runeTrie_GetLoop(child.trie, key, Append(node, d.r), i + d.size)

\* runeTrie_GetCall reporting a key found when its node is there, with a
\* value or not.
runeTrie_GetCall_FoundIfNode(t, key) ==
  [runeTrie_GetLoop(t, key, Root, 0) EXCEPT !.ok = runeTrie_Node(key) \in DOMAIN t]

\* A call of Get: what it returns and the trie after it.
runeTrie_GetCall(t, key) == runeTrie_GetLoop(t, key, Root, 0)

\* What Get returns.
runeTrie_Get(t, key) ==
  LET c == runeTrie_GetCall(t, key) IN [val |-> c.val, ok |-> c.ok]

\* runeTrie_PutValue with isNewVal taken from the node having been a leaf.
runeTrie_PutValue_NewIfLeaf(t, node, value) ==
  [trie |-> [t EXCEPT ![node] = Ptr(value)],
   isNew |-> t[node] = Nil /\ isLeaf(t, node)]

\* The end of Put, at the node the key leads to.
runeTrie_PutValue(t, node, value) ==
  [trie |-> [t EXCEPT ![node] = Ptr(value)], isNew |-> t[node] = Nil]

RECURSIVE runeTrie_PutLoop(_, _, _, _, _)
runeTrie_PutLoop(t, key, node, i, value) ==
  IF i >= Len(key)
  THEN runeTrie_PutValue(t, node, value)
  ELSE LET d == DecodeRune(key, i)
           child == Append(node, d.r)
           t1 == IF child \notin DOMAIN t THEN AddChild(t, node, d.r) ELSE t
       IN runeTrie_PutLoop(t1, key, child, i + d.size, value)

runeTrie_Put(t, key, value) == runeTrie_PutLoop(t, key, Root, 0, value)

\* A nil *runeTrie, the node field of a nodeRune that was never assigned.
NilNode == <<-1>>

\* make([]nodeRune[T], len(key)): one zero nodeRune per byte of the key.
runeTrie_NewPath(key) == [j \in 1..Len(key) |-> [r |-> 0, node |-> NilNode]]

\* The descending walk of Delete; path[i] of the code is path[i + 1] here.
RECURSIVE runeTrie_DeleteWalk(_, _, _, _, _)
runeTrie_DeleteWalk(t, key, node, i, path) ==
  IF i >= Len(key)
  THEN [found |-> TRUE, node |-> node, path |-> path, trie |-> t]
  ELSE LET d == DecodeRune(key, i)
           child == MapIndex(t, node, d.r)
           path1 == [path EXCEPT ![i + 1] = [r |-> d.r, node |-> node]]
       IN IF ~child.found
          THEN [found |-> FALSE, node |-> node, path |-> path1, trie |-> child.trie]
          ELSE runeTrie_DeleteWalk(child.trie, key, Append(node, d.r), i + d.size, path1)

\* runeTrie_DeletePrune with break in place of continue at an unassigned
\* entry of path.
RECURSIVE runeTrie_DeletePrune_BreakOnNil(_, _, _)
runeTrie_DeletePrune_BreakOnNil(t, path, i) ==
  IF i < 1 THEN t
  ELSE IF path[i].node = NilNode THEN t
  ELSE LET parent == path[i].node
           r == path[i].r
           t1 == DeleteChild(t, parent, r)
           t2 == ClearChildren(t1, parent)
       IN IF ~isLeaf(t1, parent) THEN t1
          ELSE IF t2[parent] # Nil THEN t2
          ELSE runeTrie_DeletePrune_BreakOnNil(t2, path, i - 1)

\* runeTrie_DeletePrune taking a parent that holds the zero value of T for
\* one that holds no value.
RECURSIVE runeTrie_DeletePrune_ZeroIsNil(_, _, _)
runeTrie_DeletePrune_ZeroIsNil(t, path, i) ==
  IF i < 1 THEN t
  ELSE IF path[i].node = NilNode THEN runeTrie_DeletePrune_ZeroIsNil(t, path, i - 1)
  ELSE LET parent == path[i].node
           r == path[i].r
           t1 == DeleteChild(t, parent, r)
           t2 == ClearChildren(t1, parent)
       IN IF ~isLeaf(t1, parent) THEN t1
          ELSE IF t2[parent] # Nil /\ Deref(t2[parent]) # zeroValueOfT THEN t2
          ELSE runeTrie_DeletePrune_ZeroIsNil(t2, path, i - 1)

\* The pruning loop of Delete, `for i := len(key) - 1; i >= 0; i--`, with i
\* shifted by one as in runeTrie_DeleteWalk.
RECURSIVE runeTrie_DeletePrune(_, _, _)
runeTrie_DeletePrune(t, path, i) ==
  IF i < 1 THEN t
  ELSE IF path[i].node = NilNode THEN runeTrie_DeletePrune(t, path, i - 1)
  ELSE LET parent == path[i].node
           r == path[i].r
           t1 == DeleteChild(t, parent, r)
           t2 == ClearChildren(t1, parent)
       IN IF ~isLeaf(t1, parent) THEN t1
          ELSE IF t2[parent] # Nil THEN t2
          ELSE runeTrie_DeletePrune(t2, path, i - 1)

\* runeTrie_DeleteValue that leaves the value of a node with children.
runeTrie_DeleteValue_OnlyLeaf(t, node) ==
  IF isLeaf(t, node) THEN [t EXCEPT ![node] = Nil] ELSE t

\* node.value = nil
runeTrie_DeleteValue(t, node) == [t EXCEPT ![node] = Nil]

\* runeTrie_Delete without `if node.isLeaf()` around the pruning loop.
runeTrie_Delete_AlwaysPrune(t, key) ==
  LET w == runeTrie_DeleteWalk(t, key, Root, 0, runeTrie_NewPath(key)) IN
  IF ~w.found THEN [trie |-> w.trie, existed |-> FALSE]
  ELSE [trie |-> runeTrie_DeletePrune([w.trie EXCEPT ![w.node] = Nil], w.path, Len(key)),
        existed |-> TRUE]

runeTrie_Delete(t, key) ==
  LET w == runeTrie_DeleteWalk(t, key, Root, 0, runeTrie_NewPath(key)) IN
  IF ~w.found THEN [trie |-> w.trie, existed |-> FALSE]
  ELSE LET t1 == runeTrie_DeleteValue(w.trie, w.node) IN
       [trie |-> IF isLeaf(t1, w.node)
                 THEN runeTrie_DeletePrune(t1, w.path, Len(key))
                 ELSE t1,
        existed |-> TRUE]

\* The loop of WalkPath, `for i, r := range key`.
RECURSIVE runeTrie_WalkPathLoop(_, _, _, _, _, _)
runeTrie_WalkPathLoop(t, key, node, i, stopAt, log) ==
  IF i >= Len(key) THEN [visits |-> log, err |-> NoErr, trie |-> t]
  ELSE LET d == DecodeRune(key, i)
           m == MapIndex(t, node, d.r)
           child == Append(node, d.r)
       IN IF ~m.found THEN [visits |-> log, err |-> NoErr, trie |-> m.trie]
          ELSE LET c == IF m.trie[child] # Nil
                        THEN walker(stopAt, log, Slice(key, 0, i + 1),
                                    Deref(m.trie[child]))
                        ELSE [log |-> log, err |-> NoErr]
               IN IF c.err # NoErr
                  THEN [visits |-> c.log, err |-> c.err, trie |-> m.trie]
                  ELSE runeTrie_WalkPathLoop(m.trie, key, child, i + d.size,
                                             stopAt, c.log)

\* runeTrie_WalkPath without `return err` after the walker's call for the root.
runeTrie_WalkPath_IgnoresRootErr(t, key, stopAt) ==
  LET c == IF t[Root] # Nil
           THEN walker(stopAt, <<>>, <<>>, Deref(t[Root]))
           ELSE [log |-> <<>>, err |-> NoErr]
  IN runeTrie_WalkPathLoop(t, key, Root, 0, stopAt, c.log)

\* WalkPath: the walker's calls, the error returned, and the trie after it.
runeTrie_WalkPath(t, key, stopAt) ==
  LET c == IF t[Root] # Nil
           THEN walker(stopAt, <<>>, <<>>, Deref(t[Root]))
           ELSE [log |-> <<>>, err |-> NoErr]
  IN IF c.err # NoErr THEN [visits |-> c.log, err |-> c.err, trie |-> t]
     ELSE runeTrie_WalkPathLoop(t, key, Root, 0, stopAt, c.log)

RECURSIVE runeTrie_walk(_, _, _, _, _)
RECURSIVE runeTrie_walkRange(_, _, _, _, _, _)

\* runeTrie_walk that does not go on to the children of a node with a value.
runeTrie_walk_StopsAtValue(t, node, key, stopAt, log) ==
  LET c == IF t[node] # Nil
           THEN walker(stopAt, log, key, Deref(t[node]))
           ELSE [log |-> log, err |-> NoErr]
  IN IF c.err # NoErr \/ t[node] # Nil THEN {[visits |-> c.log, err |-> c.err]}
     ELSE runeTrie_walkRange(t, node, key, Children(t, node), stopAt, c.log)

runeTrie_walk(t, node, key, stopAt, log) ==
  LET c == IF t[node] # Nil
           THEN walker(stopAt, log, key, Deref(t[node]))
           ELSE [log |-> log, err |-> NoErr]
  IN IF c.err # NoErr THEN {[visits |-> c.log, err |-> c.err]}
     ELSE runeTrie_walkRange(t, node, key, Children(t, node), stopAt, c.log)

runeTrie_walkRange(t, node, key, rest, stopAt, log) ==
  IF rest = {} THEN {[visits |-> log, err |-> NoErr]}
  ELSE UNION {UNION {IF o.err # NoErr THEN {o}
                     ELSE runeTrie_walkRange(t, node, key, rest \ {r}, stopAt, o.visits)
                     : o \in runeTrie_walk(t, Append(node, r), key \o EncodeRune(r), stopAt, log)}
              : r \in rest}

runeTrie_Walk(t, stopAt) == runeTrie_walk(t, Root, <<>>, stopAt, <<>>)

---------------------------------------------------------------------------
(* The calls *)

NoResult == Result(FALSE, zeroValueOfT, <<>>, NoErr)

\* last is the call that has just returned, with what it returned from each
\* trie (op "None": no call is pending); prePath and preRune are the tries as
\* they were when it was made.
NoCall ==
  [op |-> "None", key |-> <<>>, val |-> zeroValueOfT, stopAt |-> 0,
   path |-> NoResult, rune |-> NoResult]

Init ==
  /\ pathTrie = NewTrie
  /\ runeTrie = NewTrie
  /\ prePath = NewTrie
  /\ preRune = NewTrie
  /\ everPut = {}
  /\ last = NoCall

Put(k, v) ==
  /\ last.op = "None"
  /\ Cardinality(everPut \cup {k}) <= MaxPutKeys
  /\ LET p == pathTrie_Put(pathTrie, k, v)
         r == runeTrie_Put(runeTrie, k, v)
     IN /\ pathTrie' = p.trie
        /\ runeTrie' = r.trie
        /\ last' = [op |-> "Put", key |-> k, val |-> v, stopAt |-> 0,
                    path |-> Result(p.isNew, zeroValueOfT, <<>>, NoErr),
                    rune |-> Result(r.isNew, zeroValueOfT, <<>>, NoErr)]
  /\ everPut' = everPut \cup {k}
  /\ UNCHANGED <<prePath, preRune>>

Delete(k) ==
  /\ last.op = "None"
  /\ LET p == pathTrie_Delete(pathTrie, k)
         r == runeTrie_Delete(runeTrie, k)
     IN /\ pathTrie' = p.trie
        /\ runeTrie' = r.trie
        /\ last' = [op |-> "Delete", key |-> k, val |-> zeroValueOfT, stopAt |-> 0,
                    path |-> Result(p.existed, zeroValueOfT, <<>>, NoErr),
                    rune |-> Result(r.existed, zeroValueOfT, <<>>, NoErr)]
  /\ UNCHANGED <<prePath, preRune, everPut>>

Get(k) ==
  /\ last.op = "None"
  /\ LET p == pathTrie_GetCall(pathTrie, k)
         r == runeTrie_GetCall(runeTrie, k)
     IN /\ pathTrie' = p.trie
        /\ runeTrie' = r.trie
        /\ last' = [op |-> "Get", key |-> k, val |-> zeroValueOfT, stopAt |-> 0,
                    path |-> Result(p.ok, p.val, <<>>, NoErr),
                    rune |-> Result(r.ok, r.val, <<>>, NoErr)]
  /\ UNCHANGED <<prePath, preRune, everPut>>

\* The walkers the walks are called with: one that never stops and those
\* that stop on one of their first calls.
StopAts == 0..MaxPutKeys

\* Walk on the pathTrie (the runeTrie is not called).
PathWalk(stopAt) ==
  /\ last.op = "None"
  /\ \E p \in pathTrie_Walk(pathTrie, stopAt) :
       last' = [op |-> "PathWalk", key |-> <<>>, val |-> zeroValueOfT, stopAt |-> stopAt,
                path |-> Result(p.err = NoErr, zeroValueOfT, p.visits, p.err),
                rune |-> NoResult]
  /\ UNCHANGED <<pathTrie, runeTrie, prePath, preRune, everPut>>

\* Walk on the runeTrie (the pathTrie is not called).
RuneWalk(stopAt) ==
  /\ last.op = "None"
  /\ \E r \in runeTrie_Walk(runeTrie, stopAt) :
       last' = [op |-> "RuneWalk", key |-> <<>>, val |-> zeroValueOfT, stopAt |-> stopAt,
                path |-> NoResult,
                rune |-> Result(r.err = NoErr, zeroValueOfT, r.visits, r.err)]
  /\ UNCHANGED <<pathTrie, runeTrie, prePath, preRune, everPut>>

WalkPath(k, stopAt) ==
  /\ last.op = "None"
  /\ LET p == pathTrie_WalkPath(pathTrie, k, stopAt)
         r == runeTrie_WalkPath(runeTrie, k, stopAt)
     IN /\ pathTrie' = p.trie
        /\ runeTrie' = r.trie
        /\ last' = [op |-> "WalkPath", key |-> k, val |-> zeroValueOfT, stopAt |-> stopAt,
                    path |-> Result(p.err = NoErr, zeroValueOfT, p.visits, p.err),
                    rune |-> Result(r.err = NoErr, zeroValueOfT, r.visits, r.err)]
  /\ UNCHANGED <<prePath, preRune, everPut>>

\* The caller takes the result; the next call starts from the tries as the
\* last one left them.
Return ==
  /\ last.op # "None"
  /\ last' = NoCall
  /\ prePath' = pathTrie
  /\ preRune' = runeTrie
  /\ UNCHANGED <<pathTrie, runeTrie, everPut>>

Next ==
  \/ \E k \in Keys, v \in Values : Put(k, v)
  \/ \E k \in Keys : Delete(k)
  \/ \E k \in Keys : Get(k)
  \/ \E stopAt \in StopAts : PathWalk(stopAt)
  \/ \E stopAt \in StopAts : RuneWalk(stopAt)
  \/ \E k \in Keys, stopAt \in StopAts : WalkPath(k, stopAt)
  \/ Return

Spec == Init /\ [][Next]_vars

\* The tries under Put and Delete alone: the calls that may change them.
WriteNext ==
  \/ \E k \in Keys, v \in Values : Put(k, v)
  \/ \E k \in Keys : Delete(k)
  \/ Return

WriteSpec == Init /\ [][WriteNext]_vars

---------------------------------------------------------------------------
(* Properties *)

\* The keys Get finds in a trie.
pathTrie_Stored(t) == {k \in Keys : pathTrie_Get(t, k).ok}
runeTrie_Stored(t) == {k \in Keys : runeTrie_Get(t, k).ok}

\* C1. Round-trip: from every state a sequence of Put and Delete calls
\* leads to, and for every key (the empty key too) and value, right after
\* Put(k, v) Get(k) returns (v, true), in the pathTrie and in the runeTrie.
C1_RoundTrip ==
  last.op = "Put" =>
    /\ pathTrie_Get(pathTrie, last.key) = [val |-> last.val, ok |-> TRUE]
    /\ runeTrie_Get(runeTrie, last.key) = [val |-> last.val, ok |-> TRUE]

\* A Put has just replaced another value at its key.
C1_Witness ==
  /\ last.op = "Put"
  /\ pathTrie_Get(prePath, last.key) = [val |-> 1 - last.val, ok |-> TRUE]
  /\ runeTrie_Get(preRune, last.key) = [val |-> 1 - last.val, ok |-> TRUE]

\* C2. Delete removes visibility: right after Delete(k), whatever it
\* returned, Get(k) returns found = false, also when keys that extend k or
\* that k extends hold values.
C2_DeleteRemovesVisibility ==
  last.op = "Delete" =>
    /\ ~pathTrie_Get(pathTrie, last.key).ok
    /\ ~runeTrie_Get(runeTrie, last.key).ok

\* A Delete has just removed the value of a key that a stored key extends.
C2_Witness ==
  /\ last.op = "Delete"
  /\ runeTrie_Get(preRune, last.key).ok
  /\ pathTrie_Get(prePath, last.key).ok
  /\ \E k \in runeTrie_Stored(runeTrie) : k # last.key /\ IsPrefix(last.key, k)

\* The nodes of t, before a Delete of the key that leads to node target, that
\* the pruning must keep: those other than target with a value or with a
\* child that is not on the way to target.
KeptByPruning(t, target) ==
  {n \in DOMAIN t :
     /\ n # target
     /\ \/ t[n] # Nil
        \/ \E l \in Children(t, n) : ~IsPrefix(Append(n, l), target)}

IsDead(t, n) == t[n] = Nil /\ isLeaf(t, n)

\* C4. No dead nodes (I1, I2, I4): after every Put and every Delete, from a
\* new trie on, no node other than the root has both no value and no
\* children.
C4_NoDeadNodes ==
  /\ \A n \in DOMAIN pathTrie \ {Root} : ~IsDead(pathTrie, n)
  /\ \A n \in DOMAIN runeTrie \ {Root} : ~IsDead(runeTrie, n)

\* A Delete has just pruned two nodes or more from each trie and stopped at
\* a node that is not the root.
C4_Witness ==
  /\ last.op = "Delete"
  /\ Cardinality(DOMAIN preRune) >= Cardinality(DOMAIN runeTrie) + 2
  /\ Cardinality(DOMAIN prePath) >= Cardinality(DOMAIN pathTrie) + 2
  /\ DOMAIN runeTrie # {Root}
  /\ DOMAIN pathTrie # {Root}

\* C5. Put's return value: Put(k, v) returns true exactly when Get(k) would
\* have returned found = false right before the call (no node, or a node
\* without a value, be it one that only has children), false exactly when a
\* value was stored at k; either way the value stored at k afterwards is v.
C5_PutReturnsIsNew ==
  last.op = "Put" =>
    /\ last.path.ok = ~pathTrie_Get(prePath, last.key).ok
    /\ last.rune.ok = ~runeTrie_Get(preRune, last.key).ok
    /\ pathTrie[pathTrie_Node(last.key)] = Ptr(last.val)
    /\ runeTrie[runeTrie_Node(last.key)] = Ptr(last.val)

\* A Put has just stored a value at a node that had children and no value,
\* and returned true.
C5_Witness ==
  /\ last.op = "Put"
  /\ last.key # <<>>
  /\ last.path.ok /\ last.rune.ok
  /\ runeTrie_Node(last.key) \in DOMAIN preRune
  /\ ~isLeaf(preRune, runeTrie_Node(last.key))
  /\ pathTrie_Node(last.key) \in DOMAIN prePath
  /\ ~isLeaf(prePath, pathTrie_Node(last.key))

\* C6. Delete's return value tells whether a node existed, not whether a
\* value was removed: Delete(k) returns true exactly when the node at the end
\* of k's labels exists before the call (false exactly when a label on the
\* way has no child), with or without a value; for the empty key it returns
\* true in every state.
C6_DeleteReturnsNodeExisted ==
  last.op = "Delete" =>
    /\ last.path.ok = (pathTrie_Node(last.key) \in DOMAIN prePath)
    /\ last.rune.ok = (runeTrie_Node(last.key) \in DOMAIN preRune)
    /\ last.key = <<>> => last.path.ok /\ last.rune.ok

\* A Delete of a key whose node had children and no value has just returned
\* true.
C6_Witness ==
  /\ last.op = "Delete"
  /\ last.key # <<>>
  /\ last.path.ok /\ last.rune.ok
  /\ ~pathTrie_Get(prePath, last.key).ok
  /\ ~runeTrie_Get(preRune, last.key).ok

\* C7 as the specification states it: for every key k that was never passed
\* to Put, Delete(k) returns existed = false and leaves the trie unchanged,
\* the empty key and the label-prefixes of inserted keys included.
C7_DeleteOfNeverInsertedReturnsFalse ==
  (last.op = "Delete" /\ last.key \notin everPut) =>
    /\ ~last.path.ok
    /\ ~last.rune.ok
    /\ pathTrie = prePath
    /\ runeTrie = preRune

\* C7 as amended: for every key k that was never passed to Put, Delete(k)
\* leaves the trie unchanged (a Walk that follows visits what it visited
\* before); it returns false when a label of k has no child, and true when
\* the node of k exists: for the empty key, and for a key whose labels begin
\* the labels of a stored key.
C7_DeleteOfNeverInsertedChangesNothing ==
  (last.op = "Delete" /\ last.key \notin everPut) =>
    /\ pathTrie = prePath
    /\ runeTrie = preRune
    /\ pathTrie_Walk(pathTrie, 0) = pathTrie_Walk(prePath, 0)
    /\ runeTrie_Walk(runeTrie, 0) = runeTrie_Walk(preRune, 0)
    /\ last.path.ok = (pathTrie_Node(last.key) \in DOMAIN prePath)
    /\ last.rune.ok = (runeTrie_Node(last.key) \in DOMAIN preRune)

\* A Delete of a key that was never passed to Put, and is not empty, has just
\* returned true from both tries.
C7_Witness ==
  /\ last.op = "Delete"
  /\ last.key \notin everPut
  /\ last.key # <<>>
  /\ last.path.ok
  /\ last.rune.ok

RECURSIVE Concat(_)
Concat(labels) ==
  IF labels = <<>> THEN <<>> ELSE Head(labels) \o Concat(Tail(labels))

\* How many of labels can be followed from the root of t before a child is
\* missing.
Reach(t, labels) ==
  CHOOSE m \in 0..Len(labels) :
    /\ \A j \in 0..m : SubSeq(labels, 1, j) \in DOMAIN t
    /\ m = Len(labels) \/ SubSeq(labels, 1, m + 1) \notin DOMAIN t

\* The calls a walker must receive from WalkPath on t for a key with these
\* labels: one for each j from j0 up to Reach(t, labels) whose node has a
\* value, in that order, with the concatenation of the first j labels.
RECURSIVE OnPath(_, _, _)
OnPath(t, labels, j0) ==
  IF j0 > Reach(t, labels) THEN <<>>
  ELSE LET n == SubSeq(labels, 1, j0) IN
       (IF t[n] # Nil THEN <<[key |-> Concat(n), value |-> Deref(t[n])]>> ELSE <<>>)
       \o OnPath(t, labels, j0 + 1)

\* C8. WalkPath on the pathTrie, with a walker that never stops and a key
\* whose labels are l1..ln: the walker is called once for each j in 0..n
\* whose node l1..lj exists, before any missing child, and holds a value,
\* with (l1 \o .. \o lj, the value), in increasing order of j (the root
\* first, with the empty key), for nothing else, and WalkPath returns nil.
C8_PathWalkPathVisitsThePath ==
  (last.op = "WalkPath" /\ last.stopAt = 0) =>
    /\ last.path.visits = OnPath(pathTrie, pathTrie_Node(last.key), 0)
    /\ last.path.err = NoErr

\* A WalkPath has just called the walker for the root and then for a node
\* further down, and ended at a missing child.
C8_Witness ==
  /\ last.op = "WalkPath"
  /\ last.stopAt = 0
  /\ Len(last.path.visits) = 2
  /\ last.path.visits[1].key = <<>>
  /\ last.path.visits[2].key # last.key
  /\ pathTrie_Node(last.key) \notin DOMAIN pathTrie

\* A walk that was not stopped called the walker once for each key Get(_)
\* finds, with the value Get returns, and for nothing else, and returned nil.
WalkedAll(res, stored, Get_(_)) ==
  /\ res.err = NoErr
  /\ \A i \in 1..Len(res.visits) :
       Get_(res.visits[i].key) = [val |-> res.visits[i].value, ok |-> TRUE]
  /\ \A i, j \in 1..Len(res.visits) :
       res.visits[i].key = res.visits[j].key => i = j
  /\ \A k \in stored : \E i \in 1..Len(res.visits) : res.visits[i].key = k

pathTrie_GetNow(k) == pathTrie_Get(pathTrie, k)
runeTrie_GetNow(k) == runeTrie_Get(runeTrie, k)

\* C9. Walk completeness: in every state a sequence of Put and Delete calls
\* leads to, Walk with a walker that never stops calls it exactly once for
\* each key k that Get finds, with (k, the value Get returns), for no other
\* key (no deleted key, no node without a value), and returns nil.
C9_WalkVisitsEveryStoredKeyOnce ==
  /\ (last.op = "PathWalk" /\ last.stopAt = 0) =>
       WalkedAll(last.path, pathTrie_Stored(pathTrie), pathTrie_GetNow)
  /\ (last.op = "RuneWalk" /\ last.stopAt = 0) =>
       WalkedAll(last.rune, runeTrie_Stored(runeTrie), runeTrie_GetNow)

\* A Walk of the runeTrie has just visited two keys, one below the other,
\* under a node that has no value.
C9_Witness ==
  /\ last.op = "RuneWalk"
  /\ last.stopAt = 0
  /\ Len(last.rune.visits) = 2
  /\ IsPrefix(last.rune.visits[1].key, last.rune.visits[2].key)
  /\ \E n \in DOMAIN runeTrie \ {Root} : runeTrie[n] = Nil

\* A walk whose walker returned an error on its n-th call (n = last.stopAt)
\* made n calls and returned that error; a walk returns no other error.
StoppedAt(res) ==
  /\ (last.stopAt >= 1 /\ Len(res.visits) >= last.stopAt) =>
       (Len(res.visits) = last.stopAt /\ res.err = ErrStop)
  /\ res.err # NoErr =>
       (res.err = ErrStop /\ last.stopAt >= 1 /\ Len(res.visits) = last.stopAt)

\* C10. Walk cancellation: when the walker returns an error on its n-th
\* call during Walk, it is called exactly n times in all (no sibling, child
\* or remaining child of an ancestor is visited after, at any depth) and
\* Walk returns exactly that error.
C10_WalkStopsAtTheError ==
  /\ last.op = "PathWalk" => StoppedAt(last.path)
  /\ last.op = "RuneWalk" => StoppedAt(last.rune)

\* A Walk of the pathTrie has just been stopped on its first call, made two
\* levels down, with another stored key left unvisited.
C10_Witness ==
  /\ last.op = "PathWalk"
  /\ last.stopAt = 1
  /\ last.path.err = ErrStop
  /\ Len(last.path.visits) = 1
  /\ Len(pathTrie_Node(last.path.visits[1].key)) >= 2
  /\ Cardinality(pathTrie_Stored(pathTrie)) = 2

\* What a WalkPath stopped by its walker returns, against the same WalkPath
\* with a walker that never stops (all): the calls of all up to the stopping
\* one, and the walker's error; a WalkPath whose walker did not stop returns
\* no error, wherever the descent ended.
StoppedWalkPath(res, all) ==
  /\ StoppedAt(res)
  /\ all.err = NoErr
  /\ res.visits = SubSeq(all.visits, 1, Len(res.visits))
  /\ (last.stopAt = 0 \/ last.stopAt > Len(all.visits)) =>
       (res.visits = all.visits /\ res.err = NoErr)
  /\ res.ok = (res.err = NoErr)

\* C11: WalkPath returns an error exactly when the walker returned one: when
\* the walker fails on its n-th call, root's value included, WalkPath makes
\* no further call and returns that error; when the walker never fails,
\* WalkPath returns nil, whether the key was exhausted or a child was missing.
C11_WalkPathStopsAtTheError ==
  last.op = "WalkPath" =>
    /\ StoppedWalkPath(last.path, pathTrie_WalkPath(prePath, last.key, 0))
    /\ StoppedWalkPath(last.rune, runeTrie_WalkPath(preRune, last.key, 0))

\* A WalkPath has just been stopped on the root's own value, before any
\* descent, with the key of the call stored further down in both tries.
C11_Witness ==
  /\ last.op = "WalkPath"
  /\ last.stopAt = 1
  /\ last.key # <<>>
  /\ last.path.err = ErrStop /\ last.rune.err = ErrStop
  /\ Len(last.path.visits) = 1 /\ last.path.visits[1].key = <<>>
  /\ Len(last.rune.visits) = 1 /\ last.rune.visits[1].key = <<>>
  /\ pathTrie_Get(pathTrie, last.key).ok
  /\ runeTrie_Get(runeTrie, last.key).ok

\* The set of (key, value) pairs a walk visited, and the pairs Get finds.
VisitedPairs(res) == {res.visits[i] : i \in 1..Len(res.visits)}
pathTrie_Pairs == {[key |-> k, value |-> pathTrie_Get(pathTrie, k).val] :
                     k \in pathTrie_Stored(pathTrie)}
runeTrie_Pairs == {[key |-> k, value |-> runeTrie_Get(runeTrie, k).val] :
                     k \in runeTrie_Stored(runeTrie)}

\* The tries are new, or a call that may change them has just returned.
AfterPutOrDelete == everPut = {} \/ last.op \in {"Put", "Delete"}

\* What the two tries agree on whatever the calls made: the keys Get finds
\* and their values (looked at in the new tries and after each Put and
\* Delete), what Get and Put return, and the set of pairs an unstopped Walk
\* visits.
VariantsAgreeOnEntries ==
  /\ AfterPutOrDelete =>
       \A k \in Keys : pathTrie_Get(pathTrie, k) = runeTrie_Get(runeTrie, k)
  /\ last.op \in {"Get", "Put"} => last.path = last.rune
  /\ (last.op = "PathWalk" /\ last.stopAt = 0) =>
       VisitedPairs(last.path) = runeTrie_Pairs
  /\ (last.op = "RuneWalk" /\ last.stopAt = 0) =>
       VisitedPairs(last.rune) = pathTrie_Pairs

\* C12 as stated: the same calls made on a pathTrie (default segmenter) and
\* on a runeTrie return the same in both: Get's value and found flag, Put's
\* isNew, Delete's existed, the set of pairs Walk visits, and the sequence
\* of pairs WalkPath visits.
C12_VariantsReturnTheSame ==
  /\ VariantsAgreeOnEntries
  /\ last.op \in {"Delete", "WalkPath"} => last.path = last.rune

\* C12, amended: the same calls made on a pathTrie (default segmenter) and
\* on a runeTrie return the same Get value and found flag, the same Put
\* isNew and the same set of pairs from an unstopped Walk.  Delete returns
\* true in both for a key that held a value, and true in the runeTrie
\* whenever it does in the pathTrie; every pair an unstopped WalkPath visits
\* in the pathTrie is an entry of the runeTrie, which visits at least as
\* many nodes.
C12_VariantsAgreeOnStoredEntries ==
  /\ VariantsAgreeOnEntries
  /\ last.op = "Delete" =>
       /\ last.path.ok => last.rune.ok
       /\ pathTrie_Get(prePath, last.key).ok => (last.path.ok /\ last.rune.ok)
  /\ (last.op = "WalkPath" /\ last.stopAt = 0) =>
       /\ \A p \in VisitedPairs(last.path) :
            runeTrie_Get(runeTrie, p.key) = [val |-> p.value, ok |-> TRUE]
       /\ Len(last.path.visits) <= Len(last.rune.visits)

\* Delete of a key that holds no value has just returned false from the
\* pathTrie, where no node has its segments, and true from the runeTrie,
\* where its characters lead to a node; both tries hold the same entries.
C12_Witness ==
  /\ last.op = "Delete"
  /\ ~last.path.ok
  /\ last.rune.ok
  /\ pathTrie_Stored(pathTrie) # {}
  /\ pathTrie_Pairs = runeTrie_Pairs

\* The nodes of t that hold the zero value of T.
ZeroNodes(t) == {n \in DOMAIN t : t[n] = Ptr(zeroValueOfT)}

\* The keys whose Get finds the zero value of T.
pathTrie_ZeroKeys(t) ==
  {k \in Keys : pathTrie_Get(t, k) = [val |-> zeroValueOfT, ok |-> TRUE]}
runeTrie_ZeroKeys(t) ==
  {k \in Keys : runeTrie_Get(t, k) = [val |-> zeroValueOfT, ok |-> TRUE]}

\* The values of the nodes of t that hold one along labels, from the j0-th
\* node on and before any missing child.
RECURSIVE ValuesOnPath(_, _, _)
ValuesOnPath(t, labels, j0) ==
  IF j0 > Reach(t, labels) THEN <<>>
  ELSE LET n == SubSeq(labels, 1, j0) IN
       (IF t[n] # Nil THEN <<Deref(t[n])>> ELSE <<>>) \o ValuesOnPath(t, labels, j0 + 1)

\* Delete(key) in which node is the key's node left every other node that
\* held the zero value in place with its value.
ZeroNodesKept(pre, post, node) ==
  \A n \in ZeroNodes(pre) \ {node} : n \in DOMAIN post /\ post[n] = pre[n]

C14_StoredNilIsNotDistinguishable ==
  /\ (last.op = "Put" /\ last.val = zeroValueOfT) =>
       /\ pathTrie_Get(pathTrie, last.key) = [val |-> zeroValueOfT, ok |-> FALSE]
       /\ runeTrie_Get(runeTrie, last.key) = [val |-> zeroValueOfT, ok |-> FALSE]
  /\ last.op = "PathWalk" =>
       \A p \in VisitedPairs(last.path) : p.value # zeroValueOfT
  /\ last.op = "RuneWalk" =>
       \A p \in VisitedPairs(last.rune) : p.value # zeroValueOfT

\* C15. WalkPath(k, walker) on the runeTrie calls the walker with the part
\* of k consumed so far: each key p it passes is a prefix of k that ends with
\* the character of the visited node, so that Get(p) returns the value
\* passed with it and true.
C15_RuneWalkPathPassesTheConsumedPrefix ==
  last.op = "WalkPath" =>
    \A p \in VisitedPairs(last.rune) :
      /\ p.key = SubSeq(last.key, 1, Len(p.key))
      /\ runeTrie_Get(runeTrie, p.key) = [val |-> p.value, ok |-> TRUE]

\* The nodes on the way from the root to node, both included.
PathTo(node) == {SubSeq(node, 1, j) : j \in 0..Len(node)}

\* The shape the stored keys alone give a trie: the root, and the nodes on
\* the way to the node of each key that holds a value.
pathTrie_ShapeOfStored ==
  {Root} \cup UNION {PathTo(pathTrie_Node(k)) : k \in pathTrie_Stored(pathTrie)}
runeTrie_ShapeOfStored ==
  {Root} \cup UNION {PathTo(runeTrie_Node(k)) : k \in runeTrie_Stored(runeTrie)}

\* C16. The shape is a function of the stored entries: after any sequence
\* of Put and Delete calls the nodes of a trie are the root and the
\* label-prefixes of the keys that hold a value, whatever the calls were;
\* when no key holds a value the trie is as new, the root without a value
\* and without children.
C16_ShapeIsFunctionOfStoredKeys ==
  AfterPutOrDelete =>
    /\ DOMAIN pathTrie = pathTrie_ShapeOfStored
    /\ DOMAIN runeTrie = runeTrie_ShapeOfStored
    /\ pathTrie_Stored(pathTrie) = {} => pathTrie = NewTrie
    /\ runeTrie_Stored(runeTrie) = {} => runeTrie = NewTrie

\* Two keys were put, and a Delete has just removed the last value, held
\* two levels down or more: both tries are as new again.
C16_Witness ==
  /\ last.op = "Delete"
  /\ Cardinality(everPut) = 2
  /\ Len(pathTrie_Node(last.key)) >= 2
  /\ pathTrie_Get(prePath, last.key).ok
  /\ pathTrie = NewTrie
  /\ runeTrie = NewTrie

\* C17. A failed Delete does not mutate: when Delete(k) returns false, a
\* label of k having no child, the trie is after the call what it was
\* before it, node for node and value for value, however many ancestors
\* the walk had recorded.
C17_FailedDeleteLeavesTheTrie ==
  last.op = "Delete" =>
    /\ ~last.path.ok => pathTrie = prePath
    /\ ~last.rune.ok => runeTrie = preRune

\* Delete has just returned false from both tries after its walk went
\* through a node, not the root, that holds a value, and found the next
\* child missing.
C17_Witness ==
  /\ last.op = "Delete"
  /\ ~last.path.ok
  /\ ~last.rune.ok
  /\ \E n \in PathTo(pathTrie_Node(last.key)) \ {Root} :
       n \in DOMAIN prePath /\ prePath[n] # Nil
  /\ \E n \in PathTo(runeTrie_Node(last.key)) \ {Root} :
       n \in DOMAIN preRune /\ preRune[n] # Nil

\* Put(key, val) with node the key's node took pre to post removing
\* nothing: every node of pre is in post, with its value unless it is node,
\* which holds val; the nodes added are on the way to node and hold no value.
PutOnlyAdds(pre, post, node) ==
  /\ DOMAIN pre \subseteq DOMAIN post
  /\ \A n \in DOMAIN pre \ {node} : post[n] = pre[n]
  /\ DOMAIN post \ DOMAIN pre \subseteq PathTo(node)
  /\ \A n \in (DOMAIN post \ DOMAIN pre) \ {node} : post[n] = Nil
  /\ post[node] = Ptr(last.val)

\* C18. Put never removes anything: Put(k, v) leaves the result of Get(k')
\* as it was for every key k' other than k, removes no node, changes the
\* value of no node but the node of k, and adds only the missing nodes on
\* the path of k.
C18_PutNeverRemoves ==
  last.op = "Put" =>
    /\ \A k \in Keys \ {last.key} :
         /\ pathTrie_Get(pathTrie, k) = pathTrie_Get(prePath, k)
         /\ runeTrie_Get(runeTrie, k) = runeTrie_Get(preRune, k)
    /\ PutOnlyAdds(prePath, pathTrie, pathTrie_Node(last.key))
    /\ PutOnlyAdds(preRune, runeTrie, runeTrie_Node(last.key))

\* A Put has just added two nodes or more to each trie, under a root that
\* already had a child leading to a stored key.
C18_Witness ==
  /\ last.op = "Put"
  /\ Cardinality(DOMAIN pathTrie \ DOMAIN prePath) >= 2
  /\ Cardinality(DOMAIN runeTrie \ DOMAIN preRune) >= 2
  /\ Children(prePath, Root) # {}
  /\ Children(preRune, Root) # {}
  /\ pathTrie_Stored(prePath) \ {<<>>} # {}

\* C19. Reads do not mutate: Get, Walk and WalkPath, whatever the key and
\* whatever the walker returns (a miss, an early stop, a path that runs off
\* the tree), leave every node, value and children map of the trie as it
\* was; a Get or a WalkPath for an absent key creates no node.
C19_ReadsLeaveTheTrie ==
  last.op \in {"Get", "PathWalk", "RuneWalk", "WalkPath"} =>
    /\ pathTrie = prePath
    /\ runeTrie = preRune

\* A WalkPath for a key that is in neither trie has just been through a
\* node that holds a value and run off the tree at the next label.
C19_Witness ==
  /\ last.op = "WalkPath"
  /\ pathTrie_Node(last.key) \notin DOMAIN pathTrie
  /\ runeTrie_Node(last.key) \notin DOMAIN runeTrie
  /\ \E i \in 1..Len(last.path.visits) : last.path.visits[i].key # <<>>
  /\ \E i \in 1..Len(last.rune.visits) : last.rune.visits[i].key # <<>>

====
